---- MODULE Spec2Model ----
(***************************************************************************)
(* Gallery lightbox of the makeup-portfolio site.                          *)
(*                                                                         *)
(* The model covers a host component that owns the `lightbox` state        *)
(* (FeaturedSection or PortfolioMosaic: openLightbox / closeLightbox) and  *)
(* the lightbox component it renders with that state as props              *)
(* (PortfolioLightbox, which keeps its own currentIndex / isZoomed /       *)
(* showThumbnails, or EnhancedLightbox, which shows the prop directly).    *)
(* One action is one event handler together with the re-render and the     *)
(* effects React runs for it before the next event is delivered.           *)
(***************************************************************************)
EXTENDS Integers, Sequences, FiniteSets, TLC

\* Largest image set handed to the lightbox; indices offered to the
\* function-level calls range over 0..MaxImages, so MaxImages itself is
\* always out of range.
MaxImages == 3

\* With an empty image set open, ArrowLeft / ArrowRight move currentIndex
\* without limit; the model follows it MaxDrift steps below 0 and above
\* MaxImages.
MaxDrift == 2

\* const swipeThreshold = 50  (PortfolioLightbox.tsx:191)
swipeThreshold == 50

\* screenX values of the touches offered to the document listeners:
\* 61 - 10 exceeds the threshold, 60 - 10 equals it, 60 - 0 exceeds it.
ScreenXs == {10, 60, 61}

Hosts == {"FeaturedSection", "PortfolioMosaic"}
Components == {"PortfolioLightbox", "EnhancedLightbox"}
Keys == {"Escape", "ArrowLeft", "ArrowRight", "z", "Z", "t", "T", "Enter"}

VARIABLES
  host,            \* which component owns the lightbox state
  component,       \* which lightbox component the host renders
  lightbox,        \* host state: [isOpen, images, currentIndex]
  currentIndex,    \* PortfolioLightbox: useState(initialIndex)
  isZoomed,        \* PortfolioLightbox: useState(false)
  showThumbnails,  \* PortfolioLightbox: useState(false)
  bodyOverflow,    \* document.body.style.overflow
  listeners,       \* event types this lightbox has registered on document
  touchStartX,     \* closure variable of the touch effect
  error,           \* "None", or the exception that unmounted the tree
  last,            \* the last event delivered: its source, the command it
                   \* produced, and isOpen / isZoomed when it arrived
  overlays,        \* the overlay owners of a page (lightboxes, mobile menu)
  card,            \* a gallery card (SliderCard) of the page
  form,            \* the contact form and the email call it has in flight
  validation       \* a content entry and the result of validating it

vars == << host, component, lightbox, currentIndex, isZoomed, showThumbnails,
           bodyOverflow, listeners, touchStartX, error, last, overlays,
           card, form, validation >>

\* The overlay owners and the card while the model follows one lightbox.
OverlaysIdle == [mounted |-> FALSE]
CardIdle == [mounted |-> FALSE]
FormIdle == [mounted |-> FALSE]
ValidationIdle == [mounted |-> FALSE]

\* An image set: descriptors are opaque, so image k of a set is the number k.
ImageSet(n) == [k \in 1..n |-> k]

\* The component's local state as one record.
Local == [currentIndex |-> currentIndex, isZoomed |-> isZoomed,
          showThumbnails |-> showThumbnails]

----------------------------------------------------------------------------
(* Host: openLightbox / closeLightbox *)

openLightbox(images, index) ==
  [isOpen |-> TRUE, images |-> images, currentIndex |-> index]

closeLightbox_Featured(prev) ==
  [isOpen |-> FALSE, images |-> << >>, currentIndex |-> 0]

closeLightbox_Mosaic(prev) == [prev EXCEPT !.isOpen = FALSE]

closeLightbox(h, prev) ==
  IF h = "FeaturedSection" THEN closeLightbox_Featured(prev)
  ELSE closeLightbox_Mosaic(prev)

----------------------------------------------------------------------------
(* PortfolioLightbox: navigation and toggle callbacks on the local state *)

\* goToPrevious without the wrap from 0 to the last image.
goToPrevious_NoWrap(s, len) ==
  [s EXCEPT !.currentIndex = @ - 1, !.isZoomed = FALSE]

goToPrevious(s, len) ==
  [s EXCEPT !.currentIndex = IF @ = 0 THEN len - 1 ELSE @ - 1,
            !.isZoomed = FALSE]

\* goToNext wrapping one step late (prev === images.length).
goToNext_WrapsLate(s, len) ==
  [s EXCEPT !.currentIndex = IF @ = len THEN 0 ELSE @ + 1,
            !.isZoomed = FALSE]

goToNext(s, len) ==
  [s EXCEPT !.currentIndex = IF @ = len - 1 THEN 0 ELSE @ + 1,
            !.isZoomed = FALSE]

\* goToImage without setIsZoomed(false).
goToImage_KeepsZoom(s, index) == [s EXCEPT !.currentIndex = index]

goToImage(s, index) ==
  [s EXCEPT !.currentIndex = index, !.isZoomed = FALSE]

\* toggleZoom: setIsZoomed(!isZoomed), isZoomed being the value of the render
\* the callback was created in (snap), not the pending state (s).
toggleZoom(snap, s) == [s EXCEPT !.isZoomed = ~snap.isZoomed]

\* case 't' / 'T' and the toggle button: setShowThumbnails(!showThumbnails).
toggleThumbnails(snap, s) == [s EXCEPT !.showThumbnails = ~snap.showThumbnails]

\* handleKeyDown with the two arrow cases exchanged.
KeyCommand_SwapsArrows(key) ==
  CASE key = "Escape" -> "Close"
    [] key = "ArrowLeft" -> "Next"
    [] key = "ArrowRight" -> "Previous"
    [] key \in {"z", "Z"} -> "ToggleZoom"
    [] key \in {"t", "T"} -> "ToggleThumbnails"
    [] OTHER -> "None"

\* handleKeyDown's switch: the command a key maps to.
KeyCommand(key) ==
  CASE key = "Escape" -> "Close"
    [] key = "ArrowLeft" -> "Previous"
    [] key = "ArrowRight" -> "Next"
    [] key \in {"z", "Z"} -> "ToggleZoom"
    [] key \in {"t", "T"} -> "ToggleThumbnails"
    [] OTHER -> "None"

\* EnhancedLightbox's handleKeyDown: Escape only.
EnhancedKeyCommand(key) == IF key = "Escape" THEN "Close" ELSE "None"

\* handleTouchEnd: the command a touch-end at x produces, given touchStartX.
SwipeCommand(startX, endX) ==
  IF startX - endX > swipeThreshold THEN "Next"
  ELSE IF endX - startX > swipeThreshold THEN "Previous"
  ELSE "None"

----------------------------------------------------------------------------
(* Rendering and effects *)

\* `if (!isOpen || images.length === 0) return null;` then
\* `images[currentIndex]` and `currentImage.src`: an index outside the
\* array yields undefined, and reading .src of it throws a TypeError.
RenderResult(isOpen, images, index) ==
  IF ~isOpen \/ Len(images) = 0 THEN "null"
  ELSE IF index \in 0..(Len(images) - 1) THEN "dialog"
  ELSE "TypeError"

\* useEffect(() => setCurrentIndex(initialIndex), [initialIndex])
IndexEffect(prev, props, s) ==
  IF props.currentIndex # prev.currentIndex
  THEN [s EXCEPT !.currentIndex = props.currentIndex]
  ELSE s

\* useEffect(..., [isOpen]), state part: the else branch resets the toggles.
ScrollEffectState(prev, props, s) ==
  IF props.isOpen # prev.isOpen /\ ~props.isOpen
  THEN [s EXCEPT !.isZoomed = FALSE, !.showThumbnails = FALSE]
  ELSE s

\* useEffect(..., [isOpen]), document part: cleanup then body.
ScrollEffectOverflow(prev, props, overflow) ==
  IF props.isOpen # prev.isOpen
  THEN (IF props.isOpen THEN "hidden" ELSE "unset")
  ELSE overflow

\* Keyboard effect: cleanup removes the listener, the body adds it when open.
KeyListeners(isOpen) == IF isOpen THEN {"keydown"} ELSE {}

\* Touch effect that adds its listeners without looking at isOpen.
TouchListeners_Always(isOpen) == {"touchstart", "touchend"}

\* Touch effect (PortfolioLightbox only).
TouchListeners(isOpen) == IF isOpen THEN {"touchstart", "touchend"} ELSE {}

ListenersOf(c, isOpen) ==
  IF c = "PortfolioLightbox"
  THEN KeyListeners(isOpen) \cup TouchListeners(isOpen)
  ELSE KeyListeners(isOpen)

\* The touch effect's dependencies are [isOpen, goToPrevious, goToNext]; the
\* callbacks change with images.length.  A re-run starts a fresh closure
\* with touchStartX = 0.
TouchEffectReruns(prev, props) ==
  props.isOpen # prev.isOpen \/ Len(props.images) # Len(prev.images)

\* The index of the image the component shows.
ShownIndex(c, props, s) ==
  IF c = "PortfolioLightbox" THEN s.currentIndex ELSE props.currentIndex

\* What is on screen.
View ==
  IF error # "None" THEN "unmounted"
  ELSE RenderResult(lightbox.isOpen, lightbox.images,
                    ShownIndex(component, lightbox, Local))

----------------------------------------------------------------------------
(* Click dispatch: a click runs the onClick handlers from the target outwards
   until one of them calls e.stopPropagation(). *)

Handler(cmd) == [cmd |-> cmd, stops |-> FALSE]

\* Inner container whose onClick lets the click bubble to the backdrop.
contentClick_Bubbles == [cmd |-> "None", stops |-> FALSE]

\* Inner container: onClick={(e) => e.stopPropagation()}
contentClick == [cmd |-> "None", stops |-> TRUE]

\* Backdrop: onClick={onClose}
backdropClick == Handler("Close")

\* The onClick handlers on the path from a target of the dialog to its root.
ClickPath(c, target) ==
  CASE target = "backdrop" -> << backdropClick >>
    [] target = "content" -> << contentClick, backdropClick >>
    [] target = "closeButton" ->
         << Handler("Close"), contentClick, backdropClick >>
    [] target \in {"zoomButton", "image"} ->
         << Handler("ToggleZoom"), contentClick, backdropClick >>
    [] target = "thumbnailsToggle" ->
         << Handler("ToggleThumbnails"), contentClick, backdropClick >>
    [] target = "previousArrow" ->
         << Handler("Previous"), contentClick, backdropClick >>
    [] target = "nextArrow" ->
         << Handler("Next"), contentClick, backdropClick >>
    [] target = "thumbnail" ->
         << Handler("JumpTo"), contentClick, backdropClick >>

\* The handlers of a path that run: up to and including the first that stops
\* the propagation.
RECURSIVE Bubble(_)
Bubble(path) ==
  IF path = << >> THEN << >>
  ELSE IF Head(path).stops THEN << Head(path) >>
  ELSE << Head(path) >> \o Bubble(Tail(path))

\* The commands issued by the handlers that ran, in order.
RECURSIVE CommandsOf(_)
CommandsOf(hs) ==
  IF hs = << >> THEN << >>
  ELSE IF Head(hs).cmd = "None" THEN CommandsOf(Tail(hs))
  ELSE << Head(hs).cmd >> \o CommandsOf(Tail(hs))

\* The elements of the dialog that are rendered.
Rendered(c, props, s) ==
  IF c = "EnhancedLightbox" THEN {"backdrop", "content", "closeButton"}
  ELSE {"backdrop", "content", "closeButton", "zoomButton", "image"}
       \cup (IF Len(props.images) > 1
             THEN {"thumbnailsToggle", "previousArrow", "nextArrow"}
             ELSE {})
       \cup (IF Len(props.images) > 1 /\ s.showThumbnails
             THEN {"thumbnail"} ELSE {})

----------------------------------------------------------------------------
(* One event: the handlers have produced the host state `props` and the local
   state `s`; React renders, runs the effects, and renders again if an
   effect changed state.  A render that throws unmounts the whole tree
   (there is no error boundary), which runs every cleanup. *)

\* The record kept of an event: where it came from, the first command it
\* issued and its argument, the key pressed, and all commands issued.
Event(src, cmd, arg, key, ran) ==
  [src |-> src, cmd |-> cmd, arg |-> arg, key |-> key, ran |-> ran]

Render(ev, props, s, startX) ==
  LET prev == lightbox
      r1 == RenderResult(props.isOpen, props.images,
                         ShownIndex(component, props, s))
      s2 == IF component = "PortfolioLightbox"
            THEN ScrollEffectState(prev, props, IndexEffect(prev, props, s))
            ELSE s
      r2 == RenderResult(props.isOpen, props.images,
                         ShownIndex(component, props, s2))
      thrown == r1 = "TypeError" \/ r2 = "TypeError"
      final == IF r1 = "TypeError" THEN s ELSE s2
  IN  /\ final.currentIndex \in (0 - MaxDrift)..(MaxImages + MaxDrift)
      /\ lightbox' = props
      /\ currentIndex' = final.currentIndex
      /\ isZoomed' = final.isZoomed
      /\ showThumbnails' = final.showThumbnails
      /\ error' = IF thrown THEN "TypeError" ELSE "None"
      /\ bodyOverflow' = IF thrown THEN "unset"
                         ELSE ScrollEffectOverflow(prev, props, bodyOverflow)
      /\ listeners' = IF thrown THEN {}
                      ELSE ListenersOf(component, props.isOpen)
      /\ touchStartX' = IF thrown \/ TouchEffectReruns(prev, props)
                           \/ component # "PortfolioLightbox"
                        THEN 0 ELSE startX
      /\ last' = [src |-> ev.src, cmd |-> ev.cmd, arg |-> ev.arg,
                  key |-> ev.key, ran |-> ev.ran,
                  wasOpen |-> lightbox.isOpen, wasZoomed |-> isZoomed]
      /\ UNCHANGED << host, component, overlays, form, validation >>

\* An event of the lightbox: the cards of the page keep their state.
Commit(ev, props, s, startX) ==
  /\ Render(ev, props, s, startX)
  /\ UNCHANGED card

\* One command run by a handler.  `snap` is the local state of the render
\* the handler was created in: toggleZoom and the t / T case read it, the
\* navigation callbacks use functional updates of the pending state.
RunCommand(cmd, arg, snap, st) ==
  LET len == Len(lightbox.images)
  IN CASE cmd = "Next" -> [st EXCEPT !.s = goToNext(@, len)]
       [] cmd = "Previous" -> [st EXCEPT !.s = goToPrevious(@, len)]
       [] cmd = "JumpTo" -> [st EXCEPT !.s = goToImage(@, arg)]
       [] cmd = "ToggleZoom" -> [st EXCEPT !.s = toggleZoom(snap, @)]
       [] cmd = "ToggleThumbnails" ->
            [st EXCEPT !.s = toggleThumbnails(snap, @)]
       [] cmd = "Close" -> [st EXCEPT !.props = closeLightbox(host, @)]
       [] OTHER -> st

\* The commands of one batch, run in order before React renders.
RECURSIVE RunCommands(_, _, _, _)
RunCommands(cmds, arg, snap, st) ==
  IF cmds = << >> THEN st
  ELSE RunCommands(Tail(cmds), arg, snap,
                   RunCommand(Head(cmds), arg, snap, st))

ApplyAll(ev) ==
  LET st == RunCommands(ev.ran, ev.arg, Local,
                        [props |-> lightbox, s |-> Local])
  IN Commit(ev, st.props, st.s, touchStartX)

\* Apply a command of the input adapter to the session.
Apply(src, cmd, arg) ==
  ApplyAll(Event(src, cmd, arg, "",
                 IF cmd = "None" THEN << >> ELSE << cmd >>))

----------------------------------------------------------------------------
Init ==
  /\ host \in Hosts
  /\ component \in Components
  /\ lightbox = [isOpen |-> FALSE, images |-> << >>, currentIndex |-> 0]
  /\ currentIndex = 0
  /\ isZoomed = FALSE
  /\ showThumbnails = FALSE
  /\ bodyOverflow = "unset"
  /\ listeners = ListenersOf(component, FALSE)
  /\ touchStartX = 0
  /\ error = "None"
  /\ last = [src |-> "none", cmd |-> "None", arg |-> -1, key |-> "",
             ran |-> << >>, wasOpen |-> FALSE, wasZoomed |-> FALSE]
  /\ overlays = OverlaysIdle
  /\ card = CardIdle
  /\ form = FormIdle
  /\ validation = ValidationIdle

\* A card or mosaic tile is activated: the host's openLightbox runs.
OpenLightbox(n, i) ==
  /\ error = "None"
  /\ Commit(Event("host", "Open", i, "", << "Open" >>),
            openLightbox(ImageSet(n), i), Local, touchStartX)

hasMultipleImages == Len(lightbox.images) > 1

\* A click on an element of the rendered dialog.
Click(target, arg) ==
  /\ View = "dialog"
  /\ target \in Rendered(component, lightbox, Local)
  /\ LET ran == CommandsOf(Bubble(ClickPath(component, target)))
     IN ApplyAll(Event(target, IF ran = << >> THEN "None" ELSE ran[1],
                       arg, "", ran))

ClickClose == Click("closeButton", -1)

ClickBackdrop == Click("backdrop", -1)

\* A click on the dialog's content outside every control (caption, padding).
ClickContent == Click("content", -1)

ClickZoom == Click("zoomButton", -1)

ClickImage == Click("image", -1)

ClickThumbnailsToggle == Click("thumbnailsToggle", -1)

ClickPrevious == Click("previousArrow", -1)

ClickNext == Click("nextArrow", -1)

\* The thumbnail strip renders one button per image of the set.
ClickThumbnail(i) ==
  /\ i \in 0..(Len(lightbox.images) - 1)
  /\ Click("thumbnail", i)

\* goToImage called with an arbitrary index (as a test of the callback does).
CallGoToImage(i) ==
  /\ View = "dialog"
  /\ component = "PortfolioLightbox"
  /\ Apply("call", "JumpTo", i)

\* The command the registered keydown handler issues for a key.
KeyHandled(key) ==
  IF "keydown" \in listeners /\ lightbox.isOpen
  THEN (IF component = "PortfolioLightbox" THEN KeyCommand(key)
        ELSE EnhancedKeyCommand(key))
  ELSE "None"

\* A keydown event reaches document; the handler runs only if registered.
KeyDown(key) ==
  /\ error = "None"
  /\ LET cmd == KeyHandled(key)
     IN ApplyAll(Event("key", cmd, -1, key,
                       IF cmd = "None" THEN << >> ELSE << cmd >>))

\* Two keydown events of the same key dispatched in one task: React batches
\* the updates of both, so both run in the handler of the same render.
KeyDownTwice(key) ==
  /\ error = "None"
  /\ "keydown" \in listeners
  /\ lightbox.isOpen
  /\ LET cmd == KeyHandled(key)
     IN /\ cmd # "None"
        /\ ApplyAll(Event("keys", cmd, -1, key, << cmd, cmd >>))

TouchStart(x) ==
  /\ error = "None"
  /\ Commit(Event("touch", "None", -1, "", << >>), lightbox, Local,
            IF "touchstart" \in listeners THEN x ELSE touchStartX)

TouchEnd(x) ==
  /\ error = "None"
  /\ IF "touchend" \in listeners
     THEN Apply("touch", SwipeCommand(touchStartX, x), -1)
     ELSE Apply("touch", "None", -1)

\* Events the rendered page can produce; the host opens with a non-empty
\* set and an index into it.
Next ==
  \/ \E n \in 1..MaxImages : \E i \in 0..(n - 1) : OpenLightbox(n, i)
  \/ ClickClose
  \/ ClickBackdrop
  \/ ClickContent
  \/ ClickZoom
  \/ ClickImage
  \/ ClickThumbnailsToggle
  \/ ClickPrevious
  \/ ClickNext
  \/ \E i \in 0..(MaxImages - 1) : ClickThumbnail(i)
  \/ \E key \in Keys : KeyDown(key)
  \/ \E x \in ScreenXs : TouchStart(x)
  \/ \E x \in ScreenXs : TouchEnd(x)

Spec == Init /\ [][Next]_vars

\* Clicks and keys, with openLightbox and goToImage called with any
\* arguments and key events dispatched back to back.
NextApi ==
  \/ \E n \in 0..MaxImages : \E i \in 0..MaxImages : OpenLightbox(n, i)
  \/ ClickClose
  \/ ClickBackdrop
  \/ ClickContent
  \/ ClickZoom
  \/ ClickImage
  \/ ClickThumbnailsToggle
  \/ ClickPrevious
  \/ ClickNext
  \/ \E i \in 0..MaxImages : CallGoToImage(i)
  \/ \E key \in Keys : KeyDown(key)
  \/ \E key \in Keys : KeyDownTwice(key)

SpecApi == Init /\ [][NextApi]_vars

TypeOK ==
  /\ host \in Hosts
  /\ component \in Components
  /\ lightbox.isOpen \in BOOLEAN
  /\ lightbox.currentIndex \in 0..MaxImages
  /\ Len(lightbox.images) \in 0..MaxImages
  /\ currentIndex \in (0 - MaxDrift)..(MaxImages + MaxDrift)
  /\ isZoomed \in BOOLEAN
  /\ showThumbnails \in BOOLEAN
  /\ bodyOverflow \in {"unset", "hidden"}
  /\ listeners \subseteq {"keydown", "touchstart", "touchend"}
  /\ touchStartX \in ScreenXs \cup {0}
  /\ error \in {"None", "TypeError"}

----------------------------------------------------------------------------
(* Overlay owners of one page: the Header with its mobile menu, rendered by
   App on every page, and the lightbox instances of the page's sections.
   Every owner writes document.body.style.overflow and registers a keydown
   listener on document.  Owner 0 is the Header, owners 1..NumLightboxes are
   lightboxes, in the order App renders them. *)

\* Lightbox instances mounted on the page.
NumLightboxes == 2

HeaderId == 0
LightboxIds == 1..NumLightboxes
OwnerIds == {HeaderId} \cup LightboxIds

\* Keys offered to the overlay owners.
OverlayKeys == {"Escape", "Tab", "ShiftTab"}

\* document.activeElement: an element of the page, or the first or last
\* focusable control of an overlay.
PageFocus == [owner |-> -1, pos |-> "first"]

\* The Header's burger button, which is outside the menu overlay.
MenuButtonFocus == [owner |-> -1, pos |-> "menuButton"]

\* The focusable controls of an overlay, in DOM order.
FocusOrder == << "first", "middle", "last" >>
FocusIn(o, pos) == [owner |-> o, pos |-> pos]

\* The smallest handle not in use: the identity of a new handler closure.
FreshHandle(used) == CHOOSE h \in 0..Cardinality(used) : h \notin used

\* Keyboard effect whose cleanup does not remove the listener.
KeyEffect_NoCleanup(h, isOpen) ==
  LET fresh == FreshHandle(h.registered)
  IN [registered |-> IF isOpen THEN h.registered \cup {fresh}
                     ELSE h.registered,
      latest |-> fresh]

\* Lightbox keyboard effect, re-run: the cleanup removes the handler of the
\* previous run, the body creates a new handler and adds it when isOpen.
KeyEffect(h, isOpen) ==
  LET removed == h.registered \ {h.latest}
      fresh == FreshHandle(removed)
  IN [registered |-> IF isOpen THEN removed \cup {fresh} ELSE removed,
      latest |-> fresh]

\* Lightbox unmount: the cleanup of the keyboard effect.
KeyCleanup(h) == [h EXCEPT !.registered = @ \ {h.latest}]

\* Header keyboard effect: the handler is added whatever isMobileMenuOpen is.
HeaderKeyEffect(h) ==
  LET removed == h.registered \ {h.latest}
      fresh == FreshHandle(removed)
  IN [registered |-> removed \cup {fresh}, latest |-> fresh]

\* Scroll effect of a newly mounted owner: the body runs unconditionally.
ScrollEffectMount(isOpen) == IF isOpen THEN "hidden" ELSE "unset"

\* The scroll effects of one commit, owner by owner in render order, for the
\* owners from o on: `old` and `new` are the owners' open flags before and
\* after, `remount` the owners unmounted and replaced by new instances.
RECURSIVE OverlayOverflow(_, _, _, _, _)
OverlayOverflow(o, old, new, remount, overflow) ==
  IF o > NumLightboxes THEN overflow
  ELSE OverlayOverflow(o + 1, old, new, remount,
         IF o \in remount THEN ScrollEffectMount(new[o])
         ELSE ScrollEffectOverflow([isOpen |-> old[o]], [isOpen |-> new[o]],
                                   overflow))

\* The keyboard effects of one commit: `rerun` are the owners whose effect
\* dependencies changed without the open flag changing (a new onClose).
OverlayHandlers(old, new, remount, rerun) ==
  [o \in OwnerIds |->
     LET h == overlays.keys[o]
     IN IF o \in remount
        THEN KeyEffect([registered |-> KeyCleanup(h).registered,
                        latest |-> h.latest], new[o])
        ELSE IF old[o] = new[o] /\ o \notin rerun THEN h
        ELSE IF o = HeaderId THEN HeaderKeyEffect(h)
        ELSE KeyEffect(h, new[o])]

\* Where focus is after a commit: the Header's effect focuses the first
\* control of the menu when it opens and the menu button when it closes; a
\* lightbox moves focus nowhere; an element that leaves the DOM loses it.
OverlayFocus(old, new, focus) ==
  IF old[HeaderId] # new[HeaderId]
  THEN (IF new[HeaderId] THEN FocusIn(HeaderId, "first")
        ELSE MenuButtonFocus)
  ELSE IF focus.owner \in LightboxIds /\ ~new[focus.owner] THEN PageFocus
  ELSE focus

\* One commit of the page: the owners' open flags become `new`.
\* `page` is App's currentPage after the event; `ran` records the page and
\* section a navigation asked for.
PageCommit(cmd, arg, key, ran, page, new, remount, rerun, focus) ==
  LET old == overlays.open
  IN /\ overlays' = [mounted |-> TRUE,
                     currentPage |-> page,
                     open |-> new,
                     keys |-> OverlayHandlers(old, new, remount, rerun),
                     focus |-> OverlayFocus(old, new, focus)]
     /\ bodyOverflow' = OverlayOverflow(0, old, new, remount, bodyOverflow)
     /\ last' = [src |-> "overlay", cmd |-> cmd, arg |-> arg, key |-> key,
                 ran |-> ran, wasOpen |-> (arg \in OwnerIds /\ old[arg]),
                 wasZoomed |-> FALSE]
     /\ UNCHANGED << host, component, lightbox, currentIndex, isZoomed,
                     showThumbnails, listeners, touchStartX, error, card,
                     form, validation >>

\* A commit that leaves App's currentPage as it is.
OverlayCommit(cmd, arg, key, new, remount, rerun, focus) ==
  PageCommit(cmd, arg, key, << >>, overlays.currentPage, new, remount,
             rerun, focus)

\* The page after its first render: every owner mounted and closed.  The
\* Header's effect has called menuButtonRef.current?.focus(), which moves
\* focus only where the burger button is displayed (narrow viewports).
InitOverlay ==
  /\ host = "FeaturedSection"
  /\ component = "EnhancedLightbox"
  /\ lightbox = [isOpen |-> FALSE, images |-> << >>, currentIndex |-> 0]
  /\ currentIndex = 0
  /\ isZoomed = FALSE
  /\ showThumbnails = FALSE
  /\ bodyOverflow = "unset"
  /\ listeners = {}
  /\ touchStartX = 0
  /\ error = "None"
  /\ last = [src |-> "none", cmd |-> "None", arg |-> -1, key |-> "",
             ran |-> << >>, wasOpen |-> FALSE, wasZoomed |-> FALSE]
  /\ \E f \in {PageFocus, MenuButtonFocus} :
       overlays = [mounted |-> TRUE,
                   currentPage |-> "home",
                   open |-> [o \in OwnerIds |-> FALSE],
                   keys |-> [o \in OwnerIds |->
                               IF o = HeaderId
                               THEN [registered |-> {0}, latest |-> 0]
                               ELSE [registered |-> {}, latest |-> 0]],
                   focus |-> f]
  /\ card = CardIdle
  /\ form = FormIdle
  /\ validation = ValidationIdle

\* A host's openLightbox: the lightbox o is rendered with isOpen = true.
OvOpen(o) ==
  /\ ~overlays.open[o]
  /\ OverlayCommit("Open", o, "", [overlays.open EXCEPT ![o] = TRUE],
                   {}, {}, overlays.focus)

\* onClose of lightbox o, from its close button or its backdrop.
OvClose(o) ==
  /\ overlays.open[o]
  /\ OverlayCommit("Close", o, "", [overlays.open EXCEPT ![o] = FALSE],
                   {}, {}, overlays.focus)

\* toggleMobileMenu
OvToggleMenu ==
  OverlayCommit("ToggleMenu", HeaderId, "",
                [overlays.open EXCEPT ![HeaderId] = ~@], {}, {},
                overlays.focus)

\* The host of lightbox o re-renders: onClose is a new function, so the
\* keyboard effect ([isOpen, onClose]) runs again.
OvRerender(o) ==
  OverlayCommit("Rerender", o, "", overlays.open, {}, {o}, overlays.focus)

\* The user moves focus to a control of an open overlay (pointer, or Tab
\* from the page into the dialog's markup).
OvFocus(o, pos) ==
  /\ overlays.open[o]
  /\ overlays.focus # FocusIn(o, pos)
  /\ OverlayCommit("Focus", o, "", overlays.open, {}, {}, FocusIn(o, pos))

\* The owners whose registered handler acts on Escape: each handler returns
\* early unless its owner is open.
EscapeHandledBy ==
  {o \in OwnerIds : overlays.keys[o].registered # {} /\ overlays.open[o]}

\* Tab / Shift+Tab without any trap: the browser moves focus to the next or
\* previous control and out of the overlay at its ends.
FocusAfterTab_NoTrap(key, focus) ==
  LET k == CHOOSE j \in 1..Len(FocusOrder) : FocusOrder[j] = focus.pos
  IN IF focus.owner = -1 THEN focus
     ELSE IF key = "Tab" /\ k < Len(FocusOrder)
     THEN FocusIn(focus.owner, FocusOrder[k + 1])
     ELSE IF key = "ShiftTab" /\ k > 1
     THEN FocusIn(focus.owner, FocusOrder[k - 1])
     ELSE PageFocus

\* Where Tab / Shift+Tab leaves focus: the Header's handler wraps it inside
\* the open menu (preventDefault + focus()); no lightbox handler has a Tab
\* case, so the browser moves focus on, out of the dialog at its ends.
FocusAfterTab(key, focus) ==
  LET k == CHOOSE j \in 1..Len(FocusOrder) : FocusOrder[j] = focus.pos
      atEnd == (key = "Tab" /\ k = Len(FocusOrder))
               \/ (key = "ShiftTab" /\ k = 1)
      wrapped == IF key = "Tab" THEN FocusOrder[1]
                 ELSE FocusOrder[Len(FocusOrder)]
  IN IF focus.owner = -1 THEN focus
     ELSE IF ~atEnd
     THEN FocusIn(focus.owner,
                  FocusOrder[IF key = "Tab" THEN k + 1 ELSE k - 1])
     ELSE IF focus.owner = HeaderId
             /\ overlays.open[HeaderId]
             /\ overlays.keys[HeaderId].registered # {}
          THEN FocusIn(HeaderId, wrapped)
     ELSE IF focus.owner \in LightboxIds
             /\ KeyCommand("Tab") # "None"
          THEN FocusIn(focus.owner, wrapped)
     ELSE PageFocus

\* A keydown event on document: every registered handler runs.
OvKey(key) ==
  IF key = "Escape"
  THEN OverlayCommit("Key", -1, key,
                     [o \in OwnerIds |->
                        overlays.open[o] /\ o \notin EscapeHandledBy],
                     {}, {}, overlays.focus)
  ELSE OverlayCommit("Key", -1, key, overlays.open, {}, {},
                     FocusAfterTab(key, overlays.focus))

\* The values every setCurrentPage call of the application passes, and the
\* sections handleNavigation is called with ("" for none).
Pages == {"home", "about", "portfolio"}
Sections == {"", "contact"}

\* handleNavigation that scrolls to the section without changing the page.
HandleNavigation_SectionOnly(page, sectionId, currentPage) ==
  IF sectionId # "" /\ page = "home" THEN currentPage ELSE page

\* handleNavigation(page, sectionId): the value of currentPage after it.
HandleNavigation(page, sectionId, currentPage) ==
  IF sectionId # "" /\ page = "home"
  THEN (IF currentPage # "home" THEN "home" ELSE currentPage)
  ELSE page

\* App: the page components rendered for a value of currentPage.
PagesRendered(currentPage) ==
  {p \in {"home", "about", "portfolio"} : currentPage = p}

\* A commit in which App's currentPage becomes `page` and the open flags of
\* the owners that stay mounted become `new`: when the page changes, the
\* lightboxes of the old page unmount and those of the new page mount.
NavigateTo(cmd, ran, page, new) ==
  IF page # overlays.currentPage
  THEN PageCommit(cmd, -1, "", ran, page,
                  [o \in OwnerIds |-> o = HeaderId /\ new[o]],
                  LightboxIds, {}, overlays.focus)
  ELSE PageCommit(cmd, -1, "", ran, page, new, {}, {}, overlays.focus)

\* handleNavigation from a link of the header (desktop bar or mobile menu):
\* the menu closes and currentPage is set.
OvNavigate(page, sectionId) ==
  /\ sectionId = "" \/ page = "home"
  /\ NavigateTo("Navigate", << page, sectionId >>,
                HandleNavigation(page, sectionId, overlays.currentPage),
                [overlays.open EXCEPT ![HeaderId] = FALSE])

\* The setCurrentPage calls of the pages themselves: the portfolio buttons of
\* HomePage, FeaturedSection and AboutPage, and the Footer's logo.
PageLinks(currentPage) ==
  IF currentPage = "portfolio" THEN {"home"} ELSE {"home", "portfolio"}

OvPageLink(page) ==
  /\ page \in PageLinks(overlays.currentPage)
  /\ NavigateTo("PageLink", << page >>, page, overlays.open)

NextOverlay ==
  \/ \E o \in LightboxIds : OvOpen(o)
  \/ \E o \in LightboxIds : OvClose(o)
  \/ OvToggleMenu
  \/ \E o \in LightboxIds : OvRerender(o)
  \/ \E o \in OwnerIds : \E pos \in {"first", "last"} : OvFocus(o, pos)
  \/ \E key \in OverlayKeys : OvKey(key)
  \/ \E page \in Pages : \E s \in Sections : OvNavigate(page, s)
  \/ \E page \in Pages : OvPageLink(page)

SpecOverlay == InitOverlay /\ [][NextOverlay]_vars

TypeOKOverlay ==
  /\ overlays.mounted
  /\ overlays.open \in [OwnerIds -> BOOLEAN]
  /\ overlays.currentPage \in STRING
  /\ \A o \in OwnerIds : overlays.keys[o].registered \subseteq 0..1
  /\ overlays.focus.owner \in {-1} \cup OwnerIds
  /\ bodyOverflow \in {"unset", "hidden"}

----------------------------------------------------------------------------
(* A gallery card (SliderCard) of FeaturedSection with its own image slider,
   and the lightbox the section opens when the card is activated. *)

\* useState<number | null>(null): no coordinate recorded.
NoTouch == -1

\* clientX values of the touches on the card's image: 70 - 10 exceeds
\* minSwipeDistance, and so does 70 - 0.
CardXs == {0, 10, 70}

\* const minSwipeDistance = 50
minSwipeDistance == 50

\* `!touchStart`: null and 0 are both falsy.
Falsy(x) == x = NoTouch \/ x = 0

\* onTouchEnd: the command the gesture recorded in the card produces.
CardSwipeCommand(c) ==
  IF Falsy(c.touchStart) \/ Falsy(c.touchEnd) THEN "None"
  ELSE IF c.touchStart - c.touchEnd > minSwipeDistance /\ c.len > 1
  THEN "Next"
  ELSE IF c.touchStart - c.touchEnd < 0 - minSwipeDistance /\ c.len > 1
  THEN "Previous"
  ELSE "None"

\* A navigation handler of the card without e.stopPropagation().
cardNavClick_Bubbles(cmd) == [cmd |-> cmd, stops |-> FALSE]

\* goToNext / goToPrevious / goToImage of the card, which stop the click
\* from reaching the card's own onClick.
cardNavClick(cmd) == [cmd |-> cmd, stops |-> TRUE]

\* Card root: onClick={() => onImageClick(currentImageIndex)}
cardClick == Handler("Open")

\* The onClick handlers on the path from a target inside the card to it.
CardClickPath(target) ==
  CASE target = "card" -> << cardClick >>
    [] target = "cardPreviousArrow" ->
         << cardNavClick("Previous"), cardClick >>
    [] target = "cardNextArrow" -> << cardNavClick("Next"), cardClick >>
    [] target = "cardDot" -> << cardNavClick("JumpTo"), cardClick >>

\* The card's slider after one command.
CardCommand(cmd, arg, c) ==
  CASE cmd = "Next" ->
         [c EXCEPT !.currentImageIndex = IF @ = c.len - 1 THEN 0 ELSE @ + 1]
    [] cmd = "Previous" ->
         [c EXCEPT !.currentImageIndex = IF @ = 0 THEN c.len - 1 ELSE @ - 1]
    [] cmd = "JumpTo" -> [c EXCEPT !.currentImageIndex = arg]
    [] OTHER -> c

RECURSIVE CardCommands(_, _, _)
CardCommands(cmds, arg, c) ==
  IF cmds = << >> THEN c
  ELSE CardCommands(Tail(cmds), arg, CardCommand(Head(cmds), arg, c))

\* The section keeps at most this many images per card: .slice(0, 4).
maxCardImages == 4

\* The images of a work with n images (its own and the supplementary ones)
\* as the section hands them to the card and to openLightbox.
EnhancedImages(n) ==
  SubSeq(ImageSet(n), 1, IF n < maxCardImages THEN n ELSE maxCardImages)

\* onImageClick that opens the lightbox at its first image.
onImageClick_FirstImage(c, imageIndex) ==
  openLightbox(EnhancedImages(c.work), 0)

\* onImageClick(imageIndex) of the section.
onImageClick(c, imageIndex) ==
  openLightbox(EnhancedImages(c.work), imageIndex)

\* One event on the card: its handlers issue `cmds`; an Open among them is
\* onImageClick(currentImageIndex) with the index of the current render,
\* which makes the section open its lightbox.
CardEvent(target, arg, key, cmds, c) ==
  LET ev == Event(target, IF cmds = << >> THEN "None" ELSE cmds[1],
                  arg, key, cmds)
  IN /\ card' = CardCommands(cmds, arg, c)
     /\ IF \E k \in 1..Len(cmds) : cmds[k] = "Open"
        THEN Render(ev, onImageClick(card, card.currentImageIndex),
                    Local, touchStartX)
        ELSE Render(ev, lightbox, Local, touchStartX)

InitCard ==
  /\ host = "FeaturedSection"
  /\ component \in Components
  /\ lightbox = [isOpen |-> FALSE, images |-> << >>, currentIndex |-> 0]
  /\ currentIndex = 0
  /\ isZoomed = FALSE
  /\ showThumbnails = FALSE
  /\ bodyOverflow = "unset"
  /\ listeners = ListenersOf(component, FALSE)
  /\ touchStartX = 0
  /\ error = "None"
  /\ last = [src |-> "none", cmd |-> "None", arg |-> -1, key |-> "",
             ran |-> << >>, wasOpen |-> FALSE, wasZoomed |-> FALSE]
  /\ overlays = OverlaysIdle
  /\ form = FormIdle
  /\ validation = ValidationIdle
  /\ \E n \in 1..(MaxImages + 2) :
       card = [mounted |-> TRUE, work |-> n, len |-> Len(EnhancedImages(n)),
               currentImageIndex |-> 0,
               touchStart |-> NoTouch, touchEnd |-> NoTouch]

\* A pointer click on an element of the card; the page is not covered by
\* an open dialog.
CardClickOn(target, arg) ==
  /\ error = "None"
  /\ View # "dialog"
  /\ target = "card" \/ card.len > 1
  /\ CardEvent(target, arg, "",
               CommandsOf(Bubble(CardClickPath(target))), card)

CardClick == CardClickOn("card", -1)

CardClickPrevious == CardClickOn("cardPreviousArrow", -1)

CardClickNext == CardClickOn("cardNextArrow", -1)

CardClickDot(i) ==
  /\ i \in 0..(card.len - 1)
  /\ CardClickOn("cardDot", i)

\* handleKeyDown of the card (it has tabIndex 0 and keeps focus while the
\* dialog is open).
CardKeyCommand(key, c) ==
  CASE key \in {"Enter", " "} -> "Open"
    [] key = "ArrowLeft" /\ c.len > 1 -> "Previous"
    [] key = "ArrowRight" /\ c.len > 1 -> "Next"
    [] OTHER -> "None"

CardKeyDown(key) ==
  /\ error = "None"
  /\ LET cmd == CardKeyCommand(key, card)
     IN CardEvent("cardKey", -1, key,
                  IF cmd = "None" THEN << >> ELSE << cmd >>, card)

CardTouchStart(x) ==
  /\ error = "None"
  /\ View # "dialog"
  /\ CardEvent("cardTouchStart", -1, "", << >>,
               [card EXCEPT !.touchEnd = NoTouch, !.touchStart = x])

CardTouchMove(x) ==
  /\ error = "None"
  /\ View # "dialog"
  /\ card.touchStart # NoTouch
  /\ CardEvent("cardTouchMove", -1, "", << >>,
               [card EXCEPT !.touchEnd = x])

CardTouchEnd ==
  /\ error = "None"
  /\ View # "dialog"
  /\ card.touchStart # NoTouch
  /\ LET cmd == CardSwipeCommand(card)
     IN CardEvent("cardTouchEnd", -1, "",
                  IF cmd = "None" THEN << >> ELSE << cmd >>, card)

CardKeys == {"Enter", " ", "ArrowLeft", "ArrowRight", "Tab"}

NextCard ==
  \/ CardClick
  \/ CardClickPrevious
  \/ CardClickNext
  \/ \E i \in 0..(MaxImages - 1) : CardClickDot(i)
  \/ \E key \in CardKeys : CardKeyDown(key)
  \/ \E x \in CardXs : CardTouchStart(x)
  \/ \E x \in CardXs : CardTouchMove(x)
  \/ CardTouchEnd
  \/ ClickClose
  \/ ClickBackdrop
  \/ ClickImage
  \/ ClickThumbnailsToggle
  \/ ClickPrevious
  \/ ClickNext
  \/ \E i \in 0..(MaxImages - 1) : ClickThumbnail(i)

SpecCard == InitCard /\ [][NextCard]_vars

TypeOKCard ==
  /\ card.mounted
  /\ card.work \in 1..(MaxImages + 2)
  /\ card.len = Len(EnhancedImages(card.work))
  /\ card.currentImageIndex \in 0..(card.len - 1)
  /\ card.touchStart \in CardXs \cup {NoTouch}
  /\ card.touchEnd \in CardXs \cup {NoTouch}

----------------------------------------------------------------------------
(* Contact form: ContactForm.handleSubmit / handleChange, the EmailJS sender
   sendContactForm and the simulated senders.  Field values are sequences of
   one-character strings. *)

NameValues == { << >>, << " " >>, << "A" >> }
EmailValues == { << >>, << "a", "@", "b" >>, << "a", "@", "b", ".", "c" >>,
                 << " ", "a", "@", "b", ".", "c" >> }
MessageValues == { << >>, << " ", " " >>, << "h", "i" >> }

EmptyFormData == [name |-> << >>, email |-> << >>, message |-> << >>]

\* String.prototype.trim
RECURSIVE TrimStart(_)
TrimStart(s) ==
  IF s = << >> THEN s
  ELSE IF Head(s) = " " THEN TrimStart(Tail(s)) ELSE s

RECURSIVE TrimEnd(_)
TrimEnd(s) ==
  IF s = << >> THEN s
  ELSE IF s[Len(s)] = " " THEN TrimEnd(SubSeq(s, 1, Len(s) - 1)) ELSE s

Trim(s) == TrimEnd(TrimStart(s))

\* [^\s@]+ : a non-empty run without whitespace and without "@".
IsLocalRun(s) ==
  /\ s # << >>
  /\ \A k \in 1..Len(s) : s[k] # " " /\ s[k] # "@"

\* emailRegex.test(s) for /^[^\s@]+@[^\s@]+\.[^\s@]+$/
EmailRegexTest(s) ==
  \E p \in 1..Len(s) : \E q \in 1..Len(s) :
    /\ p < q
    /\ s[p] = "@"
    /\ s[q] = "."
    /\ IsLocalRun(SubSeq(s, 1, p - 1))
    /\ IsLocalRun(SubSeq(s, p + 1, q - 1))
    /\ IsLocalRun(SubSeq(s, q + 1, Len(s)))

\* handleSubmit's check: !formData.x?.trim() for one of the three fields.
HasBlankField(data) ==
  \/ Trim(data.name) = << >>
  \/ Trim(data.email) = << >>
  \/ Trim(data.message) = << >>

\* ContactForm.tsx's check: !formData.x (the empty string only).
HasEmptyField(data) ==
  data.name = << >> \/ data.email = << >> \/ data.message = << >>

\* sendContactForm's validation: "ok" or the message of the failure.
SendValidation(data) ==
  IF HasBlankField(data) THEN "Please fill in all required fields."
  ELSE IF ~EmailRegexTest(data.email)
  THEN "Please enter a valid email address."
  ELSE "ok"

\* No call of a sender in progress.
CallIdle ==
  [phase |-> "idle", fn |-> "", data |-> EmptyFormData, api |-> << >>,
   main |-> "none", autoReply |-> "none", result |-> "none", message |-> ""]

\* The synchronous part of sendContactForm(data): validation, then the
\* first emailjs.send; of sendContactFormDemo(data): the 1500 ms timer.
StartSend(configured, data) ==
  IF ~configured
  THEN [CallIdle EXCEPT !.phase = "demo", !.fn = "sendContactFormDemo",
                        !.data = data]
  ELSE IF SendValidation(data) # "ok"
  THEN [CallIdle EXCEPT !.phase = "returned", !.fn = "sendContactForm",
                        !.data = data, !.result = "failure",
                        !.message = SendValidation(data)]
  ELSE [CallIdle EXCEPT !.phase = "main", !.fn = "sendContactForm",
                        !.data = data, !.main = "pending",
                        !.api = << "template_contact_form" >>]

\* The main emailjs.send settles: rejected, the outer catch returns a
\* failure; resolved, the auto-reply is sent.
MainSettles(call, resolved) ==
  IF resolved
  THEN [call EXCEPT !.phase = "autoReply", !.main = "sent",
                    !.autoReply = "pending",
                    !.api = Append(@, "template_auto_reply")]
  ELSE [call EXCEPT !.phase = "returned", !.main = "failed",
                    !.result = "failure",
                    !.message = "Failed to send message. Please try again."]

\* An auto-reply whose rejection reaches the outer catch.
AutoReplySettles_Propagates(call, resolved) ==
  IF resolved
  THEN [call EXCEPT !.phase = "returned", !.autoReply = "sent",
                    !.result = "success",
                    !.message = "Message sent successfully!"]
  ELSE [call EXCEPT !.phase = "returned", !.autoReply = "failed",
                    !.result = "failure",
                    !.message = "Failed to send message. Please try again."]

\* The auto-reply emailjs.send settles: its rejection is caught by the inner
\* try and only logged.
AutoReplySettles(call, resolved) ==
  [call EXCEPT !.phase = "returned",
               !.autoReply = IF resolved THEN "sent" ELSE "failed",
               !.result = "success",
               !.message = "Message sent successfully!"]

\* sendContactFormDemo after its timer.
DemoSettles(call) ==
  [call EXCEPT !.phase = "returned", !.result = "success",
               !.message = "Message sent successfully!"]

\* The form before its first event.
FormMounted(variant, configured) ==
  [mounted |-> TRUE, variant |-> variant, configured |-> configured,
   data |-> EmptyFormData, isSubmitting |-> FALSE, isSubmitted |-> FALSE,
   submitError |-> "null", call |-> CallIdle, sent |-> EmptyFormData,
   timers |-> 0, event |-> "Mount"]

\* The form is rendered (not replaced by the success message) and its
\* inputs and button are not disabled.
SubmitEnabled_Always(f) == TRUE

SubmitEnabled(f) == ~f.isSubmitted /\ ~f.isSubmitting

\* handleSubmit up to its first await (part_004), or up to setTimeout
\* (ContactForm.tsx).
HandleSubmit(f) ==
  IF f.variant = "ContactForm.simulated"
  THEN (IF HasEmptyField(f.data) THEN [f EXCEPT !.event = "Alert"]
        ELSE [f EXCEPT !.isSubmitting = TRUE, !.sent = f.data,
                       !.call = [CallIdle EXCEPT !.phase = "simulated",
                                                 !.fn = "setTimeout",
                                                 !.data = f.data],
                       !.event = "Submit"])
  ELSE IF HasBlankField(f.data)
  THEN [f EXCEPT !.submitError = "Please fill in all fields",
                 !.event = "SubmitRefused"]
  ELSE [f EXCEPT !.submitError = "null", !.isSubmitting = TRUE,
                 !.sent = f.data,
                 !.call = StartSend(f.configured, f.data),
                 !.event = "Submit"]

\* handleSubmit that leaves isSubmitting set after a failure.
HandleResult_StaysSubmitting(f) ==
  IF f.call.result = "success"
  THEN [f EXCEPT !.isSubmitted = TRUE, !.timers = @ + 1,
                 !.isSubmitting = FALSE, !.call = CallIdle,
                 !.event = "Result"]
  ELSE [f EXCEPT !.submitError = f.call.message, !.call = CallIdle,
                 !.event = "Result"]

\* handleSubmit after the await: success, failure, finally.
HandleResult(f) ==
  IF f.call.result = "success"
  THEN [f EXCEPT !.isSubmitted = TRUE, !.timers = @ + 1,
                 !.isSubmitting = FALSE, !.call = CallIdle,
                 !.event = "Result"]
  ELSE [f EXCEPT !.submitError = f.call.message, !.isSubmitting = FALSE,
                 !.call = CallIdle, !.event = "Result"]

\* The reset timer started after a success.
ResetForm(f) ==
  [f EXCEPT !.data = EmptyFormData, !.isSubmitted = FALSE,
            !.submitError = "null", !.timers = @ - 1, !.event = "Reset"]

\* handleChange
HandleChange(f, field, value) ==
  [f EXCEPT !.data = [f.data EXCEPT ![field] = value],
            !.submitError = IF f.variant = "ContactForm.simulated" THEN @
                            ELSE "null",
            !.event = "Change"]

FormOthers == << host, component, lightbox, currentIndex, isZoomed,
                 showThumbnails, bodyOverflow, listeners, touchStartX, error,
                 last, overlays, card, validation >>

FormVariants == {"ContactForm.emailjs", "ContactForm.simulated",
                 "sendContactForm"}

InitForm ==
  /\ host = "FeaturedSection"
  /\ component = "EnhancedLightbox"
  /\ lightbox = [isOpen |-> FALSE, images |-> << >>, currentIndex |-> 0]
  /\ currentIndex = 0
  /\ isZoomed = FALSE
  /\ showThumbnails = FALSE
  /\ bodyOverflow = "unset"
  /\ listeners = {}
  /\ touchStartX = 0
  /\ error = "None"
  /\ last = [src |-> "none", cmd |-> "None", arg |-> -1, key |-> "",
             ran |-> << >>, wasOpen |-> FALSE, wasZoomed |-> FALSE]
  /\ overlays = OverlaysIdle
  /\ card = CardIdle
  /\ validation = ValidationIdle
  /\ \E v \in FormVariants : \E c \in BOOLEAN :
       /\ v = "ContactForm.simulated" => ~c
       /\ v = "sendContactForm" => c
       /\ form = FormMounted(v, c)

\* The user edits a field.
FormChange(field, value) ==
  /\ form.variant # "sendContactForm"
  /\ SubmitEnabled(form)
  /\ form.data[field] # value
  /\ form' = HandleChange(form, field, value)
  /\ UNCHANGED FormOthers

\* The form's submit event.
FormSubmit ==
  /\ form.variant # "sendContactForm"
  /\ SubmitEnabled(form)
  /\ form' = HandleSubmit(form)
  /\ UNCHANGED FormOthers

\* sendContactForm called by itself with any data.
DirectSend(data) ==
  /\ form.variant = "sendContactForm"
  /\ form.call.phase \in {"idle", "returned"}
  /\ form' = [form EXCEPT !.call = StartSend(TRUE, data), !.sent = data,
                          !.event = "Call"]
  /\ UNCHANGED FormOthers

MainEmailSettles(resolved) ==
  /\ form.call.phase = "main"
  /\ form' = [form EXCEPT !.call = MainSettles(@, resolved),
                          !.event = "MainSettled"]
  /\ UNCHANGED FormOthers

AutoReplyEmailSettles(resolved) ==
  /\ form.call.phase = "autoReply"
  /\ form' = [form EXCEPT !.call = AutoReplySettles(@, resolved),
                          !.event = IF resolved THEN "AutoReplySent"
                                    ELSE "AutoReplyFailed"]
  /\ UNCHANGED FormOthers

DemoTimer ==
  /\ form.call.phase = "demo"
  /\ form' = [form EXCEPT !.call = DemoSettles(@), !.event = "DemoTimer"]
  /\ UNCHANGED FormOthers

\* ContactForm.tsx: the 1500 ms timer of the simulated submission.
SimulatedTimer ==
  /\ form.call.phase = "simulated"
  /\ form' = [form EXCEPT !.isSubmitting = FALSE, !.isSubmitted = TRUE,
                          !.timers = @ + 1, !.call = CallIdle,
                          !.event = "Result"]
  /\ UNCHANGED FormOthers

\* The awaited promise has resolved: handleSubmit continues.
FormResult ==
  /\ form.variant = "ContactForm.emailjs"
  /\ form.call.phase = "returned"
  /\ form' = HandleResult(form)
  /\ UNCHANGED FormOthers

ResetTimer ==
  /\ form.timers > 0
  /\ form' = ResetForm(form)
  /\ UNCHANGED FormOthers

FormProgress ==
  \/ \E r \in BOOLEAN : MainEmailSettles(r)
  \/ \E r \in BOOLEAN : AutoReplyEmailSettles(r)
  \/ DemoTimer
  \/ SimulatedTimer
  \/ FormResult
  \/ ResetTimer

NextForm ==
  \/ \E v \in NameValues : FormChange("name", v)
  \/ \E v \in EmailValues : FormChange("email", v)
  \/ \E v \in MessageValues : FormChange("message", v)
  \/ FormSubmit
  \/ \E n \in NameValues : \E e \in EmailValues : \E m \in MessageValues :
       DirectSend([name |-> n, email |-> e, message |-> m])
  \/ FormProgress

SpecForm == InitForm /\ [][NextForm]_vars

\* Timers fire and the email API answers.
SpecFormFair == SpecForm /\ WF_vars(FormProgress)

TypeOKForm ==
  /\ form.mounted
  /\ form.timers \in 0..1
  /\ form.isSubmitting \in BOOLEAN
  /\ form.isSubmitted \in BOOLEAN
  /\ form.call.result \in {"none", "success", "failure"}

----------------------------------------------------------------------------
(* Content validation: the field helpers and the four content-type
   validators.  A field value is represented by its kind. *)

\* At most this many fields of an entry differ from a well-formed entry.
MaxDefects == 1

Kinds == {"undefined", "null", "string", "number", "boolean", "array",
          "asset", "object"}

\* typeof value
TypeOf(kind) ==
  CASE kind = "undefined" -> "undefined"
    [] kind = "string" -> "string"
    [] kind = "number" -> "number"
    [] kind = "boolean" -> "boolean"
    [] OTHER -> "object"

Missing(kind) == kind \in {"undefined", "null"}

Valid(warnings) == [isValid |-> TRUE, errors |-> << >>, warnings |-> warnings]

Invalid(errors, warnings) ==
  [isValid |-> FALSE, errors |-> errors, warnings |-> warnings]

validateRequiredString(kind, fieldName) ==
  IF Missing(kind) THEN Invalid(<< <<"missing", fieldName>> >>, << >>)
  ELSE IF TypeOf(kind) # "string"
  THEN Invalid(<< <<"must be a string", fieldName>> >>, << >>)
  ELSE Valid(<< >>)

validateOptionalString(kind, fieldName) ==
  IF Missing(kind) THEN Valid(<< >>)
  ELSE IF TypeOf(kind) # "string"
  THEN Valid(<< <<"should be a string", fieldName>> >>)
  ELSE Valid(<< >>)

validateBoolean(kind, fieldName) ==
  IF Missing(kind) THEN Valid(<< >>)
  ELSE IF TypeOf(kind) # "boolean"
  THEN Valid(<< <<"should be a boolean", fieldName>> >>)
  ELSE Valid(<< >>)

validateNumber(kind, fieldName) ==
  IF Missing(kind) THEN Valid(<< >>)
  ELSE IF TypeOf(kind) # "number"
  THEN Valid(<< <<"should be a number", fieldName>> >>)
  ELSE Valid(<< >>)

validateArray(kind, fieldName) ==
  IF Missing(kind) THEN Valid(<< >>)
  ELSE IF kind # "array"
  THEN Valid(<< <<"should be an array", fieldName>> >>)
  ELSE Valid(<< >>)

\* Only the kind "asset" has fields.file.
validateAsset(kind, fieldName, required) ==
  IF Missing(kind)
  THEN (IF required THEN Invalid(<< <<"missing asset", fieldName>> >>, << >>)
        ELSE Valid(<< >>))
  ELSE IF kind # "asset"
  THEN [isValid |-> ~required, errors |-> << >>,
        warnings |-> << <<"missing fields structure", fieldName>> >>]
  ELSE Valid(<< >>)

validateRichText(kind, fieldName, required) ==
  IF Missing(kind)
  THEN (IF required
        THEN Invalid(<< <<"missing rich text", fieldName>> >>, << >>)
        ELSE Valid(<< >>))
  ELSE IF TypeOf(kind) = "string" THEN Valid(<< >>)
  ELSE IF TypeOf(kind) = "object"
  THEN Valid(<< <<"invalid structure", fieldName>> >>)
  ELSE [isValid |-> ~required, errors |-> << >>,
        warnings |-> << <<"unexpected type", fieldName>> >>]

\* fields.author: validated only when it is an object with fields; the
\* name of such an object is not part of its kind.
validateAuthor(kind, fieldName) ==
  IF kind = "asset"
  THEN validateRequiredString("undefined", "author.name")
  ELSE Valid(<< >>)

\* One line of a validator: the field, the helper it is given to, the
\* helper's `required` argument, whether the validator adds the helper's
\* errors to allErrors, and the kind of a well-formed value.
Check(field, helper, required, collects, kind) ==
  [field |-> field, helper |-> helper, required |-> required,
   collects |-> collects, kind |-> kind]

BlogPostChecks ==
  << Check("title", "RequiredString", TRUE, TRUE, "string"),
     Check("slug", "RequiredString", TRUE, TRUE, "string"),
     Check("excerpt", "RequiredString", TRUE, TRUE, "string"),
     Check("content", "RichText", TRUE, TRUE, "object"),
     Check("category", "OptionalString", FALSE, FALSE, "string"),
     Check("tags", "Array", FALSE, FALSE, "array"),
     Check("published", "Boolean", FALSE, FALSE, "boolean"),
     Check("readingTime", "Number", FALSE, FALSE, "number"),
     Check("featuredImage", "Asset", FALSE, FALSE, "asset"),
     Check("author", "Author", FALSE, FALSE, "asset") >>

PortfolioEntryChecks ==
  << Check("title", "RequiredString", TRUE, TRUE, "string"),
     Check("description", "RequiredString", TRUE, TRUE, "string"),
     Check("category", "RequiredString", TRUE, TRUE, "string"),
     Check("images", "Array", FALSE, FALSE, "array"),
     Check("featuredImage", "Asset", FALSE, FALSE, "asset"),
     Check("detailedDescription", "RichText", FALSE, FALSE, "object"),
     Check("tags", "Array", FALSE, FALSE, "array"),
     Check("featured", "Boolean", FALSE, FALSE, "boolean"),
     Check("displayOrder", "Number", FALSE, FALSE, "number") >>

AboutPageChecks ==
  << Check("heroTitle", "OptionalString", FALSE, FALSE, "string"),
     Check("heroSubtitle", "OptionalString", FALSE, FALSE, "string"),
     Check("heroDescription", "OptionalString", FALSE, FALSE, "string"),
     Check("heroImage", "Asset", FALSE, FALSE, "asset"),
     Check("journeyTitle", "OptionalString", FALSE, FALSE, "string"),
     Check("journeySections", "Array", FALSE, FALSE, "array"),
     Check("servicesTitle", "OptionalString", FALSE, FALSE, "string"),
     Check("servicesDescription", "OptionalString", FALSE, FALSE, "string"),
     Check("serviceList", "Array", FALSE, FALSE, "array"),
     Check("philosophyTitle", "OptionalString", FALSE, FALSE, "string"),
     Check("philosophyContent", "OptionalString", FALSE, FALSE, "string"),
     Check("philosophyQuote", "OptionalString", FALSE, FALSE, "string"),
     Check("philosophyImage", "Asset", FALSE, FALSE, "asset") >>

HomepageChecks ==
  << Check("heroTitle", "OptionalString", FALSE, FALSE, "string"),
     Check("heroSubtitle", "OptionalString", FALSE, FALSE, "string"),
     Check("heroDescription", "OptionalString", FALSE, FALSE, "string"),
     Check("heroCta", "OptionalString", FALSE, FALSE, "string"),
     Check("heroImages", "Array", FALSE, FALSE, "array"),
     Check("featuredTitle", "OptionalString", FALSE, FALSE, "string"),
     Check("featuredDescription", "OptionalString", FALSE, FALSE, "string"),
     Check("philosophyTitle", "OptionalString", FALSE, FALSE, "string"),
     Check("philosophyCards", "Array", FALSE, FALSE, "array") >>

Validators == {"validateBlogPost", "validatePortfolioEntry",
               "validateAboutPage", "validateHomepage"}

ChecksOf(validator) ==
  CASE validator = "validateBlogPost" -> BlogPostChecks
    [] validator = "validatePortfolioEntry" -> PortfolioEntryChecks
    [] validator = "validateAboutPage" -> AboutPageChecks
    [] OTHER -> HomepageChecks

\* fields.<name> of an entry: undefined when the entry has no such field.
FieldOf(entry, name) ==
  IF name \in DOMAIN entry THEN entry[name] ELSE "undefined"

\* The helper call of one line of a validator.
HelperResult(c, entry) ==
  LET kind == FieldOf(entry, c.field)
  IN CASE c.helper = "RequiredString" ->
            validateRequiredString(kind, c.field)
       [] c.helper = "OptionalString" -> validateOptionalString(kind, c.field)
       [] c.helper = "Boolean" -> validateBoolean(kind, c.field)
       [] c.helper = "Number" -> validateNumber(kind, c.field)
       [] c.helper = "Array" -> validateArray(kind, c.field)
       [] c.helper = "Asset" -> validateAsset(kind, c.field, c.required)
       [] c.helper = "RichText" -> validateRichText(kind, c.field, c.required)
       [] OTHER -> validateAuthor(kind, c.field)

\* allErrors after the lines `checks`.
RECURSIVE AllErrors(_, _)
AllErrors(checks, entry) ==
  IF checks = << >> THEN << >>
  ELSE (IF Head(checks).collects
        THEN HelperResult(Head(checks), entry).errors ELSE << >>)
       \o AllErrors(Tail(checks), entry)

\* allWarnings after the lines `checks`.
RECURSIVE AllWarnings(_, _)
AllWarnings(checks, entry) ==
  IF checks = << >> THEN << >>
  ELSE HelperResult(Head(checks), entry).warnings
       \o AllWarnings(Tail(checks), entry)

\* The end of a validator that returns the entry whatever isValid is.
ValidationOutcome_KeepsData(allErrors, allWarnings, throwOnError) ==
  IF throwOnError /\ allErrors # << >>
  THEN [thrown |-> TRUE, isValid |-> FALSE, errors |-> allErrors,
        warnings |-> allWarnings, data |-> "undefined"]
  ELSE [thrown |-> FALSE, isValid |-> allErrors = << >>,
        errors |-> allErrors, warnings |-> allWarnings, data |-> "entry"]

\* The end of a validator: isValid, the throw, the returned record.
ValidationOutcome(allErrors, allWarnings, throwOnError) ==
  LET isValid == allErrors = << >>
  IN IF throwOnError /\ ~isValid
     THEN [thrown |-> TRUE, isValid |-> FALSE, errors |-> allErrors,
           warnings |-> allWarnings, data |-> "undefined"]
     ELSE [thrown |-> FALSE, isValid |-> isValid, errors |-> allErrors,
           warnings |-> allWarnings,
           data |-> IF isValid THEN "entry" ELSE "undefined"]

\* validator(entry, {throwOnError})
Validate(validator, entry, throwOnError) ==
  ValidationOutcome(AllErrors(ChecksOf(validator), entry),
                    AllWarnings(ChecksOf(validator), entry), throwOnError)

\* An entry of the content type with every field present and of its type.
WellFormedEntry(validator) ==
  LET checks == ChecksOf(validator)
  IN [f \in {checks[k].field : k \in 1..Len(checks)} |->
        checks[CHOOSE k \in 1..Len(checks) : checks[k].field = f].kind]

\* The entries that differ from `base` in at most n fields.
RECURSIVE Defective(_, _)
Defective(base, n) ==
  IF n = 0 THEN {base}
  ELSE LET S == Defective(base, n - 1)
       IN S \cup { [e EXCEPT ![f] = k] :
                     e \in S, f \in DOMAIN base, k \in Kinds }

OthersValidation == << host, component, lightbox, currentIndex, isZoomed,
                       showThumbnails, bodyOverflow, listeners, touchStartX,
                       error, last, overlays, card, form >>

InitValidation ==
  /\ host = "FeaturedSection"
  /\ component = "EnhancedLightbox"
  /\ lightbox = [isOpen |-> FALSE, images |-> << >>, currentIndex |-> 0]
  /\ currentIndex = 0
  /\ isZoomed = FALSE
  /\ showThumbnails = FALSE
  /\ bodyOverflow = "unset"
  /\ listeners = {}
  /\ touchStartX = 0
  /\ error = "None"
  /\ last = [src |-> "none", cmd |-> "None", arg |-> -1, key |-> "",
             ran |-> << >>, wasOpen |-> FALSE, wasZoomed |-> FALSE]
  /\ overlays = OverlaysIdle
  /\ card = CardIdle
  /\ form = FormIdle
  /\ \E type \in Validators :
       \E entry \in Defective(WellFormedEntry(type), MaxDefects) :
         validation = [mounted |-> TRUE, entry |-> entry, called |-> "",
                       throwOnError |-> FALSE,
                       result |-> ValidationOutcome(<< >>, << >>, FALSE)]

\* One call of a validator on the entry.
CallValidator(validator, throwOnError) ==
  /\ validation.called = ""
  /\ validation' = [validation EXCEPT
                      !.called = validator,
                      !.throwOnError = throwOnError,
                      !.result = Validate(validator, validation.entry,
                                          throwOnError)]
  /\ UNCHANGED OthersValidation

ValidateBlogPost == \E t \in BOOLEAN : CallValidator("validateBlogPost", t)

ValidatePortfolioEntry ==
  \E t \in BOOLEAN : CallValidator("validatePortfolioEntry", t)

ValidateAboutPage == \E t \in BOOLEAN : CallValidator("validateAboutPage", t)

ValidateHomepage == \E t \in BOOLEAN : CallValidator("validateHomepage", t)

NextValidation ==
  \/ ValidateBlogPost
  \/ ValidatePortfolioEntry
  \/ ValidateAboutPage
  \/ ValidateHomepage

SpecValidation == InitValidation /\ [][NextValidation]_vars

TypeOKValidation ==
  /\ validation.mounted
  /\ validation.called \in Validators \cup {""}
  /\ validation.result.isValid \in BOOLEAN

----------------------------------------------------------------------------
(* Properties *)

N == Len(lightbox.images)
Shown == ShownIndex(component, lightbox, Local)
SessionState == << lightbox, currentIndex, isZoomed, showThumbnails >>

\* C1: in every state of an open session over a non-empty image set of size
\* N, the index of the image shown lies in 0..N-1, whatever sequence of
\* Open, Next, Previous, JumpTo, toggles, Close and re-Open led there.
C1_IndexAlwaysValid ==
  (lightbox.isOpen /\ N > 0) => Shown \in 0..(N - 1)

\* C2: an Open from a closed session (the first Open or a re-Open after a
\* Close) on a non-empty set with a valid startIndex leaves the session
\* open at startIndex with zoom and thumbnail strip off.
C2_OpenStartsAtStartIndex ==
  [][ (last'.cmd = "Open" /\ ~lightbox.isOpen)
        => /\ lightbox'.isOpen
           /\ ShownIndex(component, lightbox', Local') = last'.arg
           /\ ~isZoomed'
           /\ ~showThumbnails' ]_vars

\* C3: Open with an empty image array never produces an open session:
\* isOpen stays false, background scroll is not suspended and no global
\* listener is registered.
C3_EmptyOpenRefused ==
  (last.cmd = "Open" /\ N = 0)
    => (~lightbox.isOpen /\ bodyOverflow # "hidden" /\ listeners = {})

\* C4: JumpTo(i) with 0 <= i < N sets currentIndex to i; JumpTo(i) with i
\* outside 0..N-1 leaves currentIndex and the rest of the session unchanged.
C4_JumpToChecksRange ==
  [][ last'.cmd = "JumpTo"
        => IF last'.arg \in 0..(N - 1)
           THEN currentIndex' = last'.arg
           ELSE UNCHANGED SessionState ]_vars

\* C5: Open with a startIndex outside 0..size-1 on a non-empty set is
\* rejected: no open session with that index is produced.
C5_OutOfRangeOpenRejected ==
  (last.cmd = "Open" /\ N > 0 /\ last.arg \notin 0..(N - 1))
    => ~(lightbox.isOpen /\ lightbox.currentIndex = last.arg)

\* goToNext applied k times to the local state s.
RECURSIVE NextTimes(_, _, _)
NextTimes(k, s, len) ==
  IF k = 0 THEN s ELSE NextTimes(k - 1, goToNext(s, len), len)

\* The local index is an index into the open, non-empty image set.
ValidPosition ==
  /\ component = "PortfolioLightbox"
  /\ lightbox.isOpen
  /\ N > 0
  /\ currentIndex \in 0..(N - 1)

\* C6: from any valid index of a non-empty set of size N, a Next step moves
\* to (currentIndex + 1) mod N, and N Next steps lead back to the index they
\* started from.
C6_NextCycleClosure ==
  [][ (ValidPosition /\ last'.cmd = "Next")
        => /\ currentIndex' = (currentIndex + 1) % N
           /\ NextTimes(N - 1, Local', N).currentIndex = currentIndex ]_vars

\* Reached: a Next step has wrapped from the last image of a set of at
\* least two images to the first.
C6_Witness ==
  /\ ValidPosition
  /\ N > 1
  /\ last.cmd = "Next"
  /\ currentIndex = 0

\* C7: on the index of a non-empty set, Previous undoes Next and Next undoes
\* Previous.
C7_PreviousInvertsNext ==
  [][ ValidPosition
        => /\ last'.cmd = "Next"
                => goToPrevious(Local', N).currentIndex = currentIndex
           /\ last'.cmd = "Previous"
                => goToNext(Local', N).currentIndex = currentIndex ]_vars

\* Reached: a Previous step has wrapped from the first image to the last.
C7_Witness ==
  /\ ValidPosition
  /\ N > 1
  /\ last.cmd = "Previous"
  /\ currentIndex = N - 1

\* C8: after a Next, Previous or JumpTo in an open session the image is not
\* zoomed, whatever isZoomed was before.
C8_NavigationResetsZoom ==
  [][ (lightbox.isOpen /\ last'.cmd \in {"Next", "Previous", "JumpTo"})
        => ~isZoomed' ]_vars

\* Reached: a JumpTo arrived while the image was zoomed and has run.
C8_Witness ==
  /\ lightbox.isOpen
  /\ last.cmd = "JumpTo"
  /\ last.wasZoomed
  /\ error = "None"

C10_CloseReleasesSession ==
  last.cmd = "Close"
    => /\ ~lightbox.isOpen
       /\ ~isZoomed
       /\ ~showThumbnails
       /\ lightbox.images = << >>

\* C14: while a PortfolioLightbox session is open, a key press issues exactly
\* the command of its key: ArrowRight Next, ArrowLeft Previous, Escape Close,
\* z / Z ToggleZoom, t / T ToggleThumbnails, each with that command's effect;
\* any other key issues no command and changes no state.
C14_KeyMapsToOneCommand ==
  [][ (last'.src = "key" /\ component = "PortfolioLightbox"
         /\ lightbox.isOpen /\ error = "None")
        => LET key == last'.key
           IN CASE key = "ArrowRight" ->
                     /\ last'.ran = << "Next" >>
                     /\ currentIndex' = (currentIndex + 1) % N
                     /\ lightbox'.isOpen
                [] key = "ArrowLeft" ->
                     /\ last'.ran = << "Previous" >>
                     /\ currentIndex' = (currentIndex + N - 1) % N
                     /\ lightbox'.isOpen
                [] key = "Escape" ->
                     /\ last'.ran = << "Close" >>
                     /\ ~lightbox'.isOpen
                [] key \in {"z", "Z"} ->
                     /\ last'.ran = << "ToggleZoom" >>
                     /\ isZoomed' = ~isZoomed
                     /\ UNCHANGED << lightbox, currentIndex, showThumbnails >>
                [] key \in {"t", "T"} ->
                     /\ last'.ran = << "ToggleThumbnails" >>
                     /\ showThumbnails' = ~showThumbnails
                     /\ UNCHANGED << lightbox, currentIndex, isZoomed >>
                [] OTHER ->
                     /\ last'.ran = << >>
                     /\ UNCHANGED SessionState ]_vars

\* Reached: in an open PortfolioLightbox session showing a zoomed image, a
\* key with no command (Enter) was pressed and the session is as it was.
C14_Witness ==
  /\ component = "PortfolioLightbox"
  /\ lightbox.isOpen
  /\ last.wasOpen
  /\ last.src = "key"
  /\ last.key = "Enter"
  /\ isZoomed
  /\ currentIndex > 0

\* C16: toggle commands are applied one at a time and never coalesced: k
\* ToggleZoom commands in succession flip isZoomed k times (two restore the
\* value it had), and k ToggleThumbnails commands flip showThumbnails k
\* times, also when they arrive before the view has re-rendered.
C16_TogglesNotCoalesced ==
  [][ (lightbox.isOpen /\ last'.src \in {"key", "keys"})
        => LET k == Len(last'.ran)
           IN /\ last'.cmd = "ToggleZoom"
                   => isZoomed' = (IF k % 2 = 0 THEN isZoomed ELSE ~isZoomed)
              /\ last'.cmd = "ToggleThumbnails"
                   => showThumbnails' = (IF k % 2 = 0 THEN showThumbnails
                                         ELSE ~showThumbnails) ]_vars

\* C18: an open session is closed by a click on the close button, by the
\* Escape key and by a click on the backdrop; a click inside the lightbox
\* content (image, caption, a control other than close) never closes it.
C18_CloseTriggers ==
  [][ (lightbox.isOpen /\ error = "None")
        => /\ (last'.src \in {"closeButton", "backdrop"}
               \/ (last'.src = "key" /\ last'.key = "Escape"))
                => ~lightbox'.isOpen
           /\ last'.src \in {"content", "image", "zoomButton",
                             "thumbnailsToggle", "previousArrow",
                             "nextArrow", "thumbnail"}
                => /\ lightbox'.isOpen
                   /\ lightbox' = lightbox ]_vars

\* Reached: a click on the content of an open dialog has been handled and
\* the session is still open.
C18_Witness ==
  /\ last.src = "content"
  /\ last.wasOpen
  /\ lightbox.isOpen
  /\ error = "None"

\* C19: with an image set of one image no command, the t / T key included,
\* makes showThumbnails true; ToggleThumbnails flips it only for a set of
\* more than one image.
C19_SingleImageNoThumbnails ==
  (lightbox.isOpen /\ N = 1) => ~showThumbnails

LightboxOpen == \E o \in LightboxIds : overlays.open[o]
OwnerOpen == \E o \in OwnerIds : overlays.open[o]

\* C11: while a lightbox session is open the document's background scroll is
\* suspended, and after every exit path (close, Escape, backdrop, unmount,
\* navigation to another page) it is restored: scroll is never left
\* suspended with no overlay open.
C11_ScrollSuspendedWhileOpen ==
  overlays.mounted
    => /\ LightboxOpen => bodyOverflow = "hidden"
       /\ ~OwnerOpen => bodyOverflow # "hidden"

\* C12: a release of the scroll lock by an owner that is not open (on its
\* mount, re-render, close or unmount) never restores scrolling while
\* another owner is still open.
C12_ReleaseKeepsOthersLock ==
  [][ (overlays.mounted /\ bodyOverflow = "hidden"
         /\ \E p \in OwnerIds :
              /\ p # last'.arg
              /\ overlays.open[p]
              /\ overlays'.open[p])
        => bodyOverflow' = "hidden" ]_vars

\* C13: a lightbox has exactly one keydown listener registered while its
\* session is open and none while it is closed or after it was unmounted,
\* whatever sequence of open, re-render, close and unmount led there; so no
\* key event is handled against a closed session.
C13_ListenerExactlyWhileOpen ==
  overlays.mounted
    => \A o \in LightboxIds :
         Cardinality(overlays.keys[o].registered)
           = (IF overlays.open[o] THEN 1 ELSE 0)

\* Reached: an open lightbox was re-rendered with a new onClose, which ran
\* its keyboard effect again, and it has one listener registered.
C13_Witness ==
  /\ overlays.mounted
  /\ last.cmd = "Rerender"
  /\ last.wasOpen
  /\ overlays.open[last.arg]
  /\ Cardinality(overlays.keys[last.arg].registered) = 1

\* C17: while a lightbox is open keyboard focus stays inside it: on Open its
\* first control receives focus, Tab on its last control moves to the first
\* and Shift+Tab on its first control moves to the last.
C17_FocusContained ==
  [][ overlays.mounted
        => /\ (last'.cmd = "Open" /\ last'.arg \in LightboxIds)
                => overlays'.focus = FocusIn(last'.arg, "first")
           /\ (last'.cmd = "Key" /\ overlays.focus.owner \in LightboxIds
               /\ overlays.open[overlays.focus.owner])
                => /\ (last'.key = "Tab" /\ overlays.focus.pos = "last")
                        => overlays'.focus
                             = FocusIn(overlays.focus.owner, "first")
                   /\ (last'.key = "ShiftTab"
                       /\ overlays.focus.pos = "first")
                        => overlays'.focus
                             = FocusIn(overlays.focus.owner, "last") ]_vars

\* C15: a touch gesture on a card with several images, from a start to an
\* end coordinate with displacement d = end - start, produces exactly one
\* navigation command when |d| exceeds the swipe threshold of 50 (Next for a
\* leftward swipe, Previous for a rightward one) and none when |d| is below
\* it, for every pair of coordinates, 0 included.
C15_SwipeThreshold ==
  [][ (last'.src = "cardTouchEnd" /\ card.len > 1
         /\ card.touchStart # NoTouch /\ card.touchEnd # NoTouch)
        => LET d == card.touchEnd - card.touchStart
               i == card.currentImageIndex
           IN /\ d < 0 - swipeThreshold
                   => /\ last'.ran = << "Next" >>
                      /\ card'.currentImageIndex = (i + 1) % card.len
              /\ d > swipeThreshold
                   => /\ last'.ran = << "Previous" >>
                      /\ card'.currentImageIndex
                           = (i + card.len - 1) % card.len
              /\ (d < swipeThreshold /\ d > 0 - swipeThreshold)
                   => /\ last'.ran = << >>
                      /\ card'.currentImageIndex = i ]_vars

\* C20: a click on a navigation arrow or on a thumbnail / pagination dot
\* runs exactly one navigation command and no other handler: in the dialog
\* it neither toggles zoom nor closes the session, on a gallery card it does
\* not open the lightbox.
C20_NavigationClickIsolated ==
  [][ /\ last'.src \in {"previousArrow", "nextArrow", "thumbnail"}
           => /\ Len(last'.ran) = 1
              /\ last'.ran[1] \in {"Previous", "Next", "JumpTo"}
              /\ UNCHANGED << lightbox, showThumbnails, bodyOverflow, card >>
      /\ last'.src \in {"cardPreviousArrow", "cardNextArrow", "cardDot"}
           => /\ Len(last'.ran) = 1
              /\ last'.ran[1] \in {"Previous", "Next", "JumpTo"}
              /\ UNCHANGED << lightbox, currentIndex, isZoomed,
                              showThumbnails, bodyOverflow >> ]_vars

\* Reached: the card's slider was moved off its first image with the card's
\* own arrow, the lightbox is still closed and was closed when the arrow
\* was clicked.
C20_Witness ==
  /\ card.mounted
  /\ last.src = "cardNextArrow"
  /\ card.currentImageIndex > 0
  /\ ~last.wasOpen
  /\ ~lightbox.isOpen
  /\ bodyOverflow = "unset"

MenuOpen == overlays.mounted /\ overlays.open[HeaderId]

\* C21: while the mobile menu is open focus is trapped in it: Tab on its
\* last control moves focus to its first, Shift+Tab on its first to its
\* last, and any Tab / Shift+Tab with focus in the menu leaves focus in the
\* menu; opening the menu focuses its first control; Escape closes it and
\* returns focus to the menu button.
C21_MenuFocusTrap ==
  [][ overlays.mounted
        => /\ (last'.cmd = "ToggleMenu" /\ ~overlays.open[HeaderId])
                => /\ overlays'.open[HeaderId]
                   /\ overlays'.focus = FocusIn(HeaderId, "first")
           /\ (MenuOpen /\ overlays.focus.owner = HeaderId
               /\ last'.cmd = "Key" /\ last'.key \in {"Tab", "ShiftTab"})
                => /\ overlays'.open[HeaderId]
                   /\ overlays'.focus.owner = HeaderId
                   /\ (last'.key = "Tab" /\ overlays.focus.pos = "last")
                        => overlays'.focus.pos = "first"
                   /\ (last'.key = "ShiftTab"
                       /\ overlays.focus.pos = "first")
                        => overlays'.focus.pos = "last"
           /\ (MenuOpen /\ last'.cmd = "Key" /\ last'.key = "Escape")
                => /\ ~overlays'.open[HeaderId]
                   /\ overlays'.focus = MenuButtonFocus ]_vars

\* Reached: with the menu open, Tab was pressed on its last control and
\* focus is on its first control.
C21_Witness ==
  /\ MenuOpen
  /\ last.cmd = "Key"
  /\ last.key = "Tab"
  /\ overlays.focus = FocusIn(HeaderId, "first")

\* C29: every navigation made through the header leaves the mobile menu
\* closed and currentPage equal to the page asked for; currentPage is always
\* "home", "about" or "portfolio", and exactly one page is rendered.
C29_HeaderNavigation ==
  [][ overlays.mounted
        => /\ last'.cmd = "Navigate"
                => /\ ~overlays'.open[HeaderId]
                   /\ overlays'.currentPage = last'.ran[1]
           /\ overlays'.currentPage \in {"home", "about", "portfolio"}
           /\ Cardinality(PagesRendered(overlays'.currentPage)) = 1 ]_vars

\* Reached: the header's Contact link has been used; the menu is closed, the
\* home page is shown and focus is on the menu button.
C29_Witness ==
  /\ overlays.mounted
  /\ last.cmd = "Navigate"
  /\ last.ran = << "home", "contact" >>
  /\ overlays.currentPage = "home"
  /\ ~overlays.open[HeaderId]
  /\ overlays.focus = MenuButtonFocus

\* C22: sendContactForm returns success exactly when its input validation
\* passes and the main notification email was sent; a failed auto-reply does
\* not make the result a failure; the auto-reply is attempted only after the
\* main send succeeded; the call always returns a result.
C22_SendResult ==
  form.mounted /\ form.call.fn = "sendContactForm" =>
    /\ form.call.phase = "returned" =>
         /\ form.call.result \in {"success", "failure"}
         /\ form.call.result = "success" <=>
              (SendValidation(form.call.data) = "ok"
                 /\ form.call.main = "sent")
    /\ form.call.autoReply # "none" => form.call.main = "sent"
    /\ SendValidation(form.call.data) # "ok" => form.call.api = << >>

C22_Witness ==
  /\ form.mounted
  /\ form.call.fn = "sendContactForm"
  /\ form.call.phase = "returned"
  /\ form.call.autoReply = "failed"
  /\ form.call.result = "success"

\* The three fields are non-blank and the email has the address format.
InputValid(data) == ~HasBlankField(data) /\ EmailRegexTest(data.email)

\* C23: a submission with a blank name, email or message, or with an email
\* that is not of the address format, sends no email and fails: ContactForm
\* sets submitError and does not enter the submitting state, and
\* sendContactForm returns a failure.
C23_InvalidInputRefused ==
  [][/\ form.mounted
     /\ form'.event \in {"Submit", "SubmitRefused", "Call"}
     /\ form.variant # "ContactForm.simulated"
     /\ ~InputValid(IF form'.event = "Call" THEN form'.sent ELSE form.data)
     => /\ form'.call.api = << >>
        /\ form.variant = "ContactForm.emailjs" =>
             ~form'.isSubmitting /\ form'.submitError # "null"
        /\ form.variant = "sendContactForm" =>
             form'.call.phase = "returned" /\ form'.call.result = "failure"
    ]_vars

\* A submission with a badly formatted email entered the submitting state.
C23_Witness ==
  /\ form.mounted
  /\ form.variant = "ContactForm.emailjs"
  /\ form.event = "Submit"
  /\ ~EmailRegexTest(form.sent.email)
  /\ form.isSubmitting

\* C24: every ContactForm submission that passes the form's validation
\* eventually ends with isSubmitting false and exactly one outcome: either
\* isSubmitted is true, after which the timer resets the fields and
\* isSubmitted, or submitError is set and the entered data are unchanged;
\* isSubmitted and a non-null submitError never hold together.
C24_SubmissionEnds ==
  /\ [](form.mounted /\ form.variant = "ContactForm.emailjs" =>
          ~(form.isSubmitted /\ form.submitError # "null"))
  /\ (form.mounted /\ form.variant = "ContactForm.emailjs"
        /\ form.isSubmitting)
       ~> (/\ ~form.isSubmitting
           /\ form.event = "Result"
           /\ \/ form.isSubmitted
              \/ form.submitError # "null" /\ form.data = form.sent)
  /\ (form.mounted /\ form.variant = "ContactForm.emailjs"
        /\ form.isSubmitted)
       ~> (/\ ~form.isSubmitted
           /\ form.event = "Reset"
           /\ form.data = EmptyFormData)

\* A submission that ended with an error and the entered data in place.
C24_Witness ==
  /\ form.mounted
  /\ form.variant = "ContactForm.emailjs"
  /\ form.event = "Result"
  /\ ~form.isSubmitting
  /\ form.submitError # "null"
  /\ form.data = form.sent
  /\ form.data # EmptyFormData

\* C30: at most one submission is in flight per ContactForm: from the moment
\* isSubmitting is set until it is cleared no second send (real, demo or
\* simulated) starts; and the reset timer of a success fires only while the
\* success message is still shown, so it never clears data entered after
\* that message went away.
C30_OneSubmissionInFlight ==
  /\ [][form.mounted /\ form'.event = "Submit" /\ form' # form =>
          ~form.isSubmitting /\ form.call.phase = "idle"]_vars
  /\ [][form.mounted /\ form'.event = "Reset" /\ form' # form =>
          form.isSubmitted /\ form.data = form.sent]_vars
  /\ [](form.mounted /\ form.variant # "sendContactForm" =>
          /\ form.timers > 0 <=> form.isSubmitted
          /\ form.isSubmitting <=> form.call.phase # "idle")

\* The reset timer of a successful submission has fired.
C30_Witness ==
  /\ form.mounted
  /\ form.event = "Reset"
  /\ form.sent # EmptyFormData
  /\ form.data = EmptyFormData
  /\ form.timers = 0

\* C28: in PortfolioLightbox a touch-end that follows no touch-start seen by
\* the same listener registration (touchStartX still has the value the
\* registration gave it; no screen coordinate of ScreenXs is 0) issues
\* neither Next nor Previous.
C28_TouchEndNeedsTouchStart ==
  [][/\ component = "PortfolioLightbox"
     /\ "touchend" \in listeners
     /\ last'.src = "touch"
     /\ touchStartX = 0
     /\ touchStartX' = 0
     => last'.cmd = "None"]_vars

RequiredChecks ==
  LET checks == ChecksOf(validation.called)
  IN {checks[k] : k \in {j \in 1..Len(checks) : checks[j].required}}

C26_RequiredFailureReported ==
  /\ validation.mounted
  /\ validation.called = "validateBlogPost"
  /\ \E c \in RequiredChecks : ~HelperResult(c, validation.entry).isValid
  => validation.result.thrown \/ ~validation.result.isValid
====
